---- MODULE Spec2Model ----
(***************************************************************************)
(* A model of synk.py (Skynk synteny plotting tool): the data pipeline     *)
(* create_chr_color_map -> augment_karyotype (x2) -> stack -> merge_busco  *)
(* -> apply_chr_replacements -> filter_non_integer_chrs -> replace_fill    *)
(* -> optional renderer, as main() runs it, and the same functions called  *)
(* on their own over bounded sets of inputs.                               *)
(*                                                                         *)
(* Files are sequences of rows.  A karyotype row is a record with the      *)
(* columns the code reads or writes (Chr, fill, species, size, color);     *)
(* Start and End are carried through untouched by every stage and are left *)
(* out.  A link row is the sequence of its seven tab-separated fields; a   *)
(* coordinate field holds the integer whose decimal text the file holds.   *)
(***************************************************************************)
EXTENDS Integers, Sequences, FiniteSets, TLC

\* ------------------------------------------------------------------ bounds
\* Longest karyotype (number of rows) the model enumerates.
MaxChr == 2
\* Longest ortholog table (number of data rows) given to merge_busco alone.
MaxRows == 2
\* Number of pipeline invocations over the same files.
MaxRuns == 2

\* ------------------------------------------------------- values and texts
\* Python None: csv.DictReader's value for a field a short row lacks.
None == "None"
\* A null (NaN) cell of a pandas column, written as an empty cell.
NaN == "NaN"

Front(s) == SubSeq(s, 1, Len(s) - 1)
Last(s) == s[Len(s)]
Range(s) == {s[i] : i \in DOMAIN s}

\* int(chr_label) for the labels of the model; a label outside it raises
\* ValueError.
IntLiteral == ("1" :> 1) @@ ("2" :> 2) @@ ("3" :> 3)

\* str.upper() on the labels of the model.
Upper(s) == IF s = "i" THEN "I" ELSE IF s = "ii" THEN "II" ELSE s

ROMAN_NUMERAL_MAP ==
    ("I" :> 1) @@ ("II" :> 2) @@ ("III" :> 3) @@ ("IV" :> 4) @@ ("V" :> 5) @@
    ("VI" :> 6) @@ ("VII" :> 7) @@ ("VIII" :> 8) @@ ("IX" :> 9) @@ ("X" :> 10) @@
    ("XI" :> 11) @@ ("XII" :> 12) @@ ("XIII" :> 13) @@ ("XIV" :> 14) @@
    ("XV" :> 15) @@ ("XVI" :> 16) @@ ("XVII" :> 17) @@ ("XVIII" :> 18) @@
    ("XIX" :> 19) @@ ("XX" :> 20)

\* The sort key of a label: an int when int() or the Roman table parses it,
\* the label itself (a str) otherwise.
try_parse_chr(chr_label) ==
    IF chr_label \in DOMAIN IntLiteral
    THEN [type |-> "int", val |-> IntLiteral[chr_label]]
    ELSE IF Upper(chr_label) \in DOMAIN ROMAN_NUMERAL_MAP
         THEN [type |-> "int", val |-> ROMAN_NUMERAL_MAP[Upper(chr_label)]]
         ELSE [type |-> "str", val |-> chr_label]

\* Python's order on the str labels of the model (code point order).
StrOrd == ("W" :> 1) @@ ("Z" :> 2)

\* a < b on two sort keys; Python raises TypeError for an int and a str.
KeyLess(a, b) ==
    IF a.type # b.type THEN [err |-> TRUE, lt |-> FALSE]
    ELSE IF a.type = "int" THEN [err |-> FALSE, lt |-> a.val < b.val]
    ELSE [err |-> FALSE, lt |-> StrOrd[a.val] < StrOrd[b.val]]

\* One step of the stable insertion sort that sorted() runs on a short list:
\* x goes after every element that is not greater than it.
RECURSIVE InsertSorted(_, _)
InsertSorted(x, s) ==
    IF s = <<>> THEN [err |-> FALSE, seq |-> <<x>>]
    ELSE LET c == KeyLess(try_parse_chr(x), try_parse_chr(Last(s)))
         IN  IF c.err THEN [err |-> TRUE, seq |-> <<>>]
             ELSE IF c.lt
                  THEN LET r == InsertSorted(x, Front(s))
                       IN  [err |-> r.err,
                            seq |-> IF r.err THEN <<>> ELSE Append(r.seq, Last(s))]
                  ELSE [err |-> FALSE, seq |-> Append(s, x)]

\* sorted(chromosomes, key=try_parse_chr): err is the TypeError.
RECURSIVE SortedByKey(_)
SortedByKey(s) ==
    IF s = <<>> THEN [err |-> FALSE, seq |-> <<>>]
    ELSE LET r == SortedByKey(Front(s))
         IN  IF r.err THEN r ELSE InsertSorted(Last(s), r.seq)

\* df['Chr'].astype(str).unique(): the distinct labels in order of first
\* appearance.
RECURSIVE Unique(_)
Unique(s) ==
    IF s = <<>> THEN <<>>
    ELSE LET u == Unique(Front(s))
         IN  IF Last(s) \in Range(u) THEN u ELSE Append(u, Last(s))

\* The gradient names matplotlib knows, among those the model passes.
ValidCmaps == {"plasma", "viridis"}

RECURSIVE GCD(_, _)
GCD(a, b) == IF b = 0 THEN a ELSE GCD(b, a % b)

\* The i-th (0-based) of num_colors samples of gradient cmap_name, taken at
\* position i/(num_colors-1) of the gradient.  The six hex digits are stood
\* for by the text "<gradient>@<position as a reduced fraction>", so that
\* equal positions of one gradient are equal colors and nothing else is.
ColorSample(cmap_name, num_colors, i) ==
    IF num_colors = 1 THEN cmap_name \o "@0/1"
    ELSE LET g == GCD(i, num_colors - 1)
         IN  cmap_name \o "@" \o ToString(i \div g) \o "/"
                \o ToString((num_colors - 1) \div g)

generate_color_gradient(num_colors, cmap_name) ==
    [i \in 1..num_colors |-> ColorSample(cmap_name, num_colors, i - 1)]

\* str(i) for a rank.
Str(i) == ToString(i)

ChrColumn(rows) == [i \in DOMAIN rows |-> rows[i].Chr]

\* The distinct labels create_chr_color_map ranks.
Chromosomes(labels) == Unique(labels)

\* create_chr_color_map on a karyotype whose Chr column holds `labels`
\* (hasChr: the column exists).  err: fail() was called and nothing written.
create_chr_color_map(labels, hasChr, cmap_name) ==
    LET sorted == SortedByKey(Chromosomes(labels))
        n == Len(sorted.seq)
        colors == generate_color_gradient(n, cmap_name)
    IN  IF ~hasChr \/ sorted.err \/ cmap_name \notin ValidCmaps
        THEN [err |-> TRUE, labelMap |-> <<>>, ordinalMap |-> <<>>]
        ELSE [err |-> FALSE,
              labelMap |-> [i \in 1..n |-> <<sorted.seq[i], colors[i]>>],
              ordinalMap |-> [i \in 1..n |-> <<Str(i), colors[i]>>]]

\* ------------------------------------------------------ augment_karyotype
\* A two-column map file (chr_color_map.txt or color_replace.txt) is a
\* sequence of lines <<key, color>>.  pandas reads the Chr column of the
\* karyotype and of the map with the same type inference, so a label of one
\* equals a label of the other when their texts are equal.

\* The fill values the left merge on Chr joins to a karyotype row: one per
\* matching map line, in the map's order, or a single null when none matches.
RECURSIVE JoinedFills(_, _)
JoinedFills(chr, mapLines) ==
    IF mapLines = <<>> THEN <<>>
    ELSE LET rest == JoinedFills(chr, Front(mapLines))
         IN  IF Last(mapLines)[1] = chr THEN Append(rest, Last(mapLines)[2]) ELSE rest

MergeLeft(chr, mapLines) ==
    IF JoinedFills(chr, mapLines) = <<>> THEN <<NaN>> ELSE JoinedFills(chr, mapLines)

\* fill_x.combine_first(fill_y): the row's own fill (fill_x; null when the
\* karyotype has no fill column yet) wins over the joined map value.
CombineFirst(fill_x, fill_y) == IF fill_x # NaN THEN fill_x ELSE fill_y

\* The rows one karyotype row becomes in join mode.
AugmentRow(row, mapLines, size, color) ==
    LET fills == MergeLeft(row.Chr, mapLines)
    IN  [k \in DOMAIN fills |->
            [Chr |-> row.Chr, fill |-> CombineFirst(row.fill, fills[k]),
             species |-> row.species, size |-> size, color |-> color]]

RECURSIVE AugmentJoin(_, _, _, _)
AugmentJoin(rows, mapLines, size, color) ==
    IF rows = <<>> THEN <<>>
    ELSE AugmentJoin(Front(rows), mapLines, size, color)
            \o AugmentRow(Last(rows), mapLines, size, color)

\* augment_karyotype: the rows written back to karyo_file.  fill_all is None
\* in join mode.  err: the file could not be read, fail() was called and the
\* file is left as it was.
augment_karyotype(rows, readable, mapLines, fill_all, size, color) ==
    IF ~readable THEN [err |-> TRUE, rows |-> rows]
    ELSE IF fill_all # None
    THEN [err |-> FALSE,
          rows |-> [i \in DOMAIN rows |->
                      [Chr |-> rows[i].Chr, fill |-> fill_all,
                       species |-> rows[i].species, size |-> size, color |-> color]]]
    ELSE [err |-> FALSE, rows |-> AugmentJoin(rows, mapLines, size, color)]

\* ------------------------------------------------------------ merge_busco
\* An ortholog-table row as csv.DictReader yields it: a record of the fields
\* id ("# Busco id"), Status, Contig, Sequence, GeneStart, GeneEnd, each the
\* field's text, or None when the row is too short to hold it or the table has
\* no such column.

\* str.strip() on the texts of the model.
Strip(s) ==
    IF s = "A1 " THEN "A1" ELSE IF s = "Complete " THEN "Complete" ELSE s

\* str.lower() on the identifiers of the model.
Lower(s) == IF s = "A1" THEN "a1" ELSE s

\* bool(x) of an optional text.
Truthy(x) == x # None /\ x # ""

\* int(float(text)): err is the ValueError or TypeError.
CoordValue == ("100" :> 100) @@ ("200" :> 200) @@ ("250.7" :> 250)

ParseCoord(text) ==
    IF text \in DOMAIN CoordValue
    THEN [err |-> FALSE, val |-> CoordValue[text]]
    ELSE [err |-> TRUE, val |-> 0]

\* The status test of read_busco: the row is kept.
IsComplete(row) == Strip(row.Status) = "Complete"

\* data.setdefault(bid, {})[label] = row on an insertion-ordered dict, held as
\* a sequence of <<bid, row>>.
DictPut(data, bid, row) ==
    IF \E i \in DOMAIN data : data[i][1] = bid
    THEN [i \in DOMAIN data |-> IF data[i][1] = bid THEN <<bid, row>> ELSE data[i]]
    ELSE Append(data, <<bid, row>>)

DictHas(data, bid) == \E i \in DOMAIN data : data[i][1] = bid
DictGet(data, bid) == data[CHOOSE i \in DOMAIN data : data[i][1] = bid][2]

\* read_busco: err is the AttributeError of None.strip(), which the outer
\* handler of merge_busco turns into fail().
RECURSIVE read_busco(_)
read_busco(rows) ==
    IF rows = <<>> THEN [err |-> FALSE, data |-> <<>>]
    ELSE LET r == read_busco(Front(rows))
             row == Last(rows)
         IN  IF r.err THEN r
             ELSE IF row.Status = None THEN [err |-> TRUE, data |-> <<>>]
             ELSE IF ~IsComplete(row) THEN r
             ELSE IF row.id = None THEN [err |-> TRUE, data |-> <<>>]
             ELSE [err |-> FALSE, data |-> DictPut(r.data, Lower(Strip(row.id)), row)]

\* shared = [bid for bid in b1 if bid in b2]
Shared(b1, b2) ==
    LET keys == [i \in DOMAIN b1 |-> b1[i][1]]
    IN  SelectSeq(keys, LAMBDA bid : DictHas(b2, bid))

SyntenyHeader ==
    <<"Species_1", "Start_1", "End_1", "Species_2", "Start_2", "End_2", "fill">>

\* The body of the loop over shared: the line written for bid, or <<>> when
\* the identifier is skipped (a coordinate does not parse, a contig is empty).
LinkFor(row1, row2) ==
    LET chr1 == IF Truthy(row1.Contig) THEN row1.Contig ELSE row1.Sequence
        chr2 == IF Truthy(row2.Contig) THEN row2.Contig ELSE row2.Sequence
        start1 == ParseCoord(row1.GeneStart)
        end1 == ParseCoord(row1.GeneEnd)
        start2 == ParseCoord(row2.GeneStart)
        end2 == ParseCoord(row2.GeneEnd)
    IN  IF start1.err \/ end1.err \/ start2.err \/ end2.err THEN <<>>
        ELSE IF ~Truthy(chr1) \/ ~Truthy(chr2) THEN <<>>
        ELSE << <<chr1, start1.val, end1.val, chr2, start2.val, end2.val,
                  "placeholder">> >>

\* The identifiers of shared, in order, each with the lines written for it.
MergeLoop(b1, b2) ==
    LET shared == Shared(b1, b2)
    IN  [i \in DOMAIN shared |->
            [bid |-> shared[i],
             lines |-> LinkFor(DictGet(b1, shared[i]), DictGet(b2, shared[i]))]]

RECURSIVE Flatten(_)
Flatten(ss) == IF ss = <<>> THEN <<>> ELSE Flatten(Front(ss)) \o Last(ss)

\* open(path, "a") in place of open(path, "w"): the file keeps what it held.
OpenAppend(old, new) == old \o new

\* open(path, "w"): what the file holds after `new` is written over `old`.
OpenW(old, new) == new

\* merge_busco: the file written to output_path.  err: fail() was called
\* before the file was opened.
merge_busco(rows1, rows2, old) ==
    LET b1 == read_busco(rows1)
        b2 == read_busco(rows2)
        loop == MergeLoop(b1.data, b2.data)
    IN  IF b1.err \/ b2.err THEN [err |-> TRUE, lines |-> old]
        ELSE [err |-> FALSE,
              lines |-> OpenW(old, <<SyntenyHeader>>
                          \o Flatten([i \in DOMAIN loop |-> loop[i].lines]))]

\* ------------------------------------------------- apply_chr_replacements
\* load_map: a line that does not split into exactly two fields raises
\* ValueError.  The map is a function from old to new label.
RECURSIVE load_map(_)
load_map(lines) ==
    IF lines = <<>> THEN [err |-> FALSE, m |-> <<>>]
    ELSE LET r == load_map(Front(lines))
             line == Last(lines)
         IN  IF r.err \/ Len(line) # 2 THEN [err |-> TRUE, m |-> <<>>]
             ELSE [err |-> FALSE, m |-> DictPut(r.m, line[1], line[2])]

\* rep.get(label, label)
MapGet(m, label) == IF DictHas(m, label) THEN DictGet(m, label) ELSE label

apply_chr_replacements(lines, rep1Lines, rep2Lines) ==
    LET rep1 == load_map(rep1Lines)
        rep2 == load_map(rep2Lines)
        data == SelectSeq(SubSeq(lines, 2, Len(lines)), LAMBDA parts : Len(parts) = 7)
    IN  IF rep1.err \/ rep2.err THEN [err |-> TRUE, lines |-> lines]
        ELSE [err |-> FALSE,
              lines |-> OpenW(lines, <<lines[1]>> \o
                  [i \in DOMAIN data |->
                      [data[i] EXCEPT ![1] = MapGet(rep1.m, data[i][1]),
                                      ![4] = MapGet(rep2.m, data[i][4])]])]

\* ------------------------------------------------ filter_non_integer_chrs
\* str.isdigit() on the labels of the model.
IsDigit(s) == s \in {"1", "2", "3", "4", "5", "6", "7", "8"}

filter_non_integer_chrs(lines) ==
    LET data == SubSeq(lines, 2, Len(lines))
    IN  IF \E i \in DOMAIN data : Len(data[i]) < 4
        THEN [err |-> TRUE, lines |-> lines]
        ELSE [err |-> FALSE,
              lines |-> OpenW(lines, <<lines[1]>> \o
                  SelectSeq(data, LAMBDA parts : IsDigit(parts[1]) /\ IsDigit(parts[4])))]

\* ----------------------------------------------------------- replace_fill
\* color_dict of replace_fill: the lines of the color map with two fields.
ColorDict(mapLines) ==
    LET RECURSIVE Build(_)
        Build(ls) ==
            IF ls = <<>> THEN <<>>
            ELSE IF Len(Last(ls)) = 2
                 THEN DictPut(Build(Front(ls)), Last(ls)[1], Last(ls)[2])
                 ELSE Build(Front(ls))
    IN  Build(mapLines)

\* color_dict.get(key, "placeholder"): a missing key keeps the placeholder.
FillLookupDefault(color_dict, key) ==
    IF DictHas(color_dict, key) THEN DictGet(color_dict, key) ELSE "placeholder"

\* color_dict.get(key): None when the key is absent.
FillLookup(color_dict, key) ==
    IF DictHas(color_dict, key) THEN DictGet(color_dict, key) ELSE None

\* replace_fill: the file written to output_path.
replace_fill(lines, mapLines, old) ==
    LET color_dict == ColorDict(mapLines)
        data == SelectSeq(SubSeq(lines, 2, Len(lines)),
                    LAMBDA parts : Len(parts) = 7
                                   /\ FillLookup(color_dict, parts[1]) # None)
    IN  OpenW(old, <<lines[1]>> \o
            [i \in DOMAIN data |->
                [data[i] EXCEPT ![7] = FillLookup(color_dict, data[i][1])]])

\* ------------------------------------------------------------- the state
VARIABLES
    \* main(): the stage about to run, or "done" / "failed" once the process
    \* has ended; the stages run so far in this invocation; what was reported.
    pc, executed, errorReported, successReported, exitCode,
    \* The invocation: its number over the same files, and its --cmap.
    run, cmap,
    \* Input files.  karyo1 and karyo2 are rewritten in place.
    karyo1, karyo1HasChr, karyo2, karyo2Readable, busco1, busco2, rep1, rep2,
    \* Output files of --outdir.
    chr_color_map, color_replace, dual_karyotype, merged_busco, final_synteny,
    \* The --cmap and the output files of the previous invocation, kept to
    \* compare two invocations.
    prev,
    \* A function called on its own: which one, its arguments and its result.
    unit, uLabelsA, uLabelsB, uCmap, uMapsA, uMapsB, uRows, uMap, uOut

pvars == <<pc, executed, errorReported, successReported, exitCode, run, cmap,
           karyo1, karyo1HasChr, karyo2, karyo2Readable, busco1, busco2, rep1, rep2,
           chr_color_map, color_replace, dual_karyotype, merged_busco,
           final_synteny, prev>>
uvars == <<unit, uLabelsA, uLabelsB, uCmap, uMapsA, uMapsB, uRows, uMap, uOut>>
vars == <<pvars, uvars>>

\* ------------------------------------------------------------- the inputs
\* All sequences over S of length lo..hi.
SeqsOf(S, lo, hi) == UNION {[1..n -> S] : n \in lo..hi}

\* --karyo_size and --karyo_color (their defaults).
KaryoSize == "12"
KaryoColor == "black"
\* fill_all of the second karyotype.
FlatFill == "cccccc"

\* A karyotype file as given: columns Chr, Start, End, species only.
KaryotypeFile(labels, species) ==
    [i \in DOMAIN labels |->
        [Chr |-> labels[i], fill |-> NaN, species |-> species,
         size |-> NaN, color |-> NaN]]

\* Chromosome labels of the first karyotype in a pipeline run.
PipelineLabels == {"1", "2", "3", "I", "W"}
\* --cmap values: two gradients and a name matplotlib does not know.
Cmaps == {"plasma", "viridis", "nope"}

BuscoRow(id, status, contig, sequence, start, end) ==
    [id |-> id, Status |-> status, Contig |-> contig, Sequence |-> sequence,
     GeneStart |-> start, GeneEnd |-> end]

\* Rows of an ortholog table: well-formed ones, and the row-level anomalies.
RowA1 == BuscoRow("a1", "Complete", "chr1", None, "100", "200")
RowA1Padded == BuscoRow("A1 ", "Complete ", None, "scaf2", "250.7", "200")
RowA1Fragmented == BuscoRow("a1", "Fragmented", "chr1", None, "100", "200")
RowA1BadCoord == BuscoRow("a1", "Complete", "chr1", None, "abc", "200")
RowB2 == BuscoRow("b2", "Complete", "chr2", None, "100", "250.7")
RowB2NoContig == BuscoRow("b2", "Complete", "", None, "100", "200")
RowB2NoCoords == BuscoRow("b2", "Complete", "chr2", None, None, None)
RowB2IdOnly == BuscoRow("b2", None, None, None, None, None)

\* The ortholog tables of a pipeline run.
PipelineBusco1 ==
    {<<RowA1, RowB2>>, <<RowA1, RowB2IdOnly>>, <<RowA1BadCoord, RowB2>>,
     <<RowA1Fragmented, RowB2NoCoords>>}
PipelineBusco2 == {<<RowA1, RowB2>>, <<RowA1Padded, RowB2NoContig>>}

\* The translation maps of a pipeline run; the last has a one-field line.
PipelineRep1 ==
    {<< <<"chr1", "1">>, <<"chr2", "2">> >>, << <<"chr1", "2">>, <<"chr2", "3">> >>,
     << <<"chr1", "W">> >>, << <<"chr1", "1">>, <<"chr2">> >>}
PipelineRep2 == {<< <<"chr1", "1">>, <<"chr2", "2">>, <<"scaf2", "3">> >>}

\* A file is read as it was first found: an input is chosen when the first
\* invocation reads it and is the same file afterwards.
AsFound(stored, choices) == IF run = 1 THEN choices ELSE {stored}

\* ------------------------------------------------------------- main()
\* fail() without its sys.exit(1): it prints and returns to main().
failReturns(resume) == resume

\* fail(): prints and calls sys.exit(1); the process ends and `resume`, the
\* stage that would have run next, never does.
fail(resume) == "failed"

\* The end of a stage: fail() on an error, the next stage otherwise.  The exit
\* code becomes 1 when fail() ends the process.
Finish(stage, err, next) ==
    /\ executed' = Append(executed, stage)
    /\ pc' = IF err THEN fail(next) ELSE next
    /\ errorReported' = (errorReported \/ err)
    /\ exitCode' = IF err /\ fail(next) = "failed" THEN 1 ELSE exitCode

Outputs ==
    [chr_color_map |-> chr_color_map, color_replace |-> color_replace,
     karyo1 |-> karyo1, karyo2 |-> karyo2, dual_karyotype |-> dual_karyotype,
     merged_busco |-> merged_busco, final_synteny |-> final_synteny]

NoOutputs ==
    [chr_color_map |-> <<>>, color_replace |-> <<>>, karyo1 |-> <<>>,
     karyo2 |-> <<>>, dual_karyotype |-> <<>>, merged_busco |-> <<>>,
     final_synteny |-> <<>>]

Init ==
    /\ pc = "color_map" /\ executed = <<>>
    /\ errorReported = FALSE /\ successReported = FALSE /\ exitCode = -1
    /\ run = 1 /\ cmap \in Cmaps
    /\ \E labels \in SeqsOf(PipelineLabels, 1, MaxChr) :
          karyo1 = KaryotypeFile(labels, "sp1")
    /\ karyo1HasChr \in BOOLEAN
    /\ karyo2 = KaryotypeFile(<<"1", "2">>, "sp2") /\ karyo2Readable = TRUE
    /\ busco1 = <<>> /\ busco2 = <<>> /\ rep1 = <<>> /\ rep2 = <<>>
    /\ chr_color_map = <<>> /\ color_replace = <<>> /\ dual_karyotype = <<>>
    /\ merged_busco = <<>> /\ final_synteny = <<>>
    /\ prev = [cmap |-> "", out |-> NoOutputs]
    /\ unit = "pipeline" /\ uLabelsA = <<>> /\ uLabelsB = <<>> /\ uCmap = ""
    /\ uMapsA = <<>> /\ uMapsB = <<>> /\ uRows = <<>> /\ uMap = <<>> /\ uOut = <<>>

\* create_chr_color_map(args.karyotype1, chr_color_map, color_replace_map, cmap)
ColorMapStage ==
    /\ pc = "color_map"
    /\ LET r == create_chr_color_map(ChrColumn(karyo1), karyo1HasChr, cmap)
       IN  /\ chr_color_map' = IF r.err THEN chr_color_map
                                ELSE OpenW(chr_color_map, r.labelMap)
           /\ color_replace' = IF r.err THEN color_replace
                                ELSE OpenW(color_replace, r.ordinalMap)
           /\ Finish("color_map", r.err, "augment1")
    /\ UNCHANGED <<successReported, run, cmap, karyo1, karyo1HasChr, karyo2,
                   karyo2Readable, busco1, busco2, rep1, rep2, dual_karyotype,
                   merged_busco, final_synteny, prev, uvars>>

\* augment_karyotype(args.karyotype1, chr_color_map, size=..., color=...)
Augment1Stage ==
    /\ pc = "augment1"
    /\ LET r == augment_karyotype(karyo1, TRUE, chr_color_map, None,
                                  KaryoSize, KaryoColor)
       IN  /\ karyo1' = r.rows
           /\ Finish("augment1", r.err, "augment2")
    /\ UNCHANGED <<successReported, run, cmap, karyo1HasChr, karyo2,
                   karyo2Readable, busco1, busco2, rep1, rep2, chr_color_map,
                   color_replace, dual_karyotype, merged_busco, final_synteny,
                   prev, uvars>>

\* augment_karyotype(args.karyotype2, chr_color_map, fill_all="cccccc", ...)
Augment2Stage ==
    /\ pc = "augment2"
    /\ \E readable \in AsFound(karyo2Readable, BOOLEAN) :
          LET r == augment_karyotype(karyo2, readable, chr_color_map, FlatFill,
                                     KaryoSize, KaryoColor)
          IN  /\ karyo2Readable' = readable
              /\ karyo2' = r.rows
              /\ Finish("augment2", r.err, "stack")
    /\ UNCHANGED <<successReported, run, cmap, karyo1, karyo1HasChr, busco1,
                   busco2, rep1, rep2, chr_color_map, color_replace,
                   dual_karyotype, merged_busco, final_synteny, prev, uvars>>

\* pd.concat([df1, df2]) written to dual_karyotype.txt
StackStage ==
    /\ pc = "stack"
    /\ dual_karyotype' = karyo1 \o karyo2
    /\ Finish("stack", FALSE, "merge")
    /\ UNCHANGED <<successReported, run, cmap, karyo1, karyo1HasChr, karyo2,
                   karyo2Readable, busco1, busco2, rep1, rep2, chr_color_map,
                   color_replace, merged_busco, final_synteny, prev, uvars>>

\* merge_busco(args.busco1, args.busco2, merged_busco)
MergeStage ==
    /\ pc = "merge"
    /\ \E b1 \in AsFound(busco1, PipelineBusco1), b2 \in AsFound(busco2, PipelineBusco2) :
          LET r == merge_busco(b1, b2, merged_busco)
          IN  /\ busco1' = b1 /\ busco2' = b2
              /\ merged_busco' = r.lines
              /\ Finish("merge", r.err, "remap")
    /\ UNCHANGED <<successReported, run, cmap, karyo1, karyo1HasChr, karyo2,
                   karyo2Readable, rep1, rep2, chr_color_map, color_replace,
                   dual_karyotype, final_synteny, prev, uvars>>

\* apply_chr_replacements(merged_busco, args.rep1, args.rep2)
RemapStage ==
    /\ pc = "remap"
    /\ \E m1 \in AsFound(rep1, PipelineRep1), m2 \in AsFound(rep2, PipelineRep2) :
          LET r == apply_chr_replacements(merged_busco, m1, m2)
          IN  /\ rep1' = m1 /\ rep2' = m2
              /\ merged_busco' = r.lines
              /\ Finish("remap", r.err, "filter")
    /\ UNCHANGED <<successReported, run, cmap, karyo1, karyo1HasChr, karyo2,
                   karyo2Readable, busco1, busco2, chr_color_map, color_replace,
                   dual_karyotype, final_synteny, prev, uvars>>

\* filter_non_integer_chrs(merged_busco)
FilterStage ==
    /\ pc = "filter"
    /\ LET r == filter_non_integer_chrs(merged_busco)
       IN  /\ merged_busco' = r.lines
           /\ Finish("filter", r.err, "fill")
    /\ UNCHANGED <<successReported, run, cmap, karyo1, karyo1HasChr, karyo2,
                   karyo2Readable, busco1, busco2, rep1, rep2, chr_color_map,
                   color_replace, dual_karyotype, final_synteny, prev, uvars>>

\* replace_fill(merged_busco, color_replace_map, final_synteny)
FillStage ==
    /\ pc = "fill"
    /\ final_synteny' = replace_fill(merged_busco, color_replace, final_synteny)
    /\ Finish("fill", FALSE, "render")
    /\ UNCHANGED <<successReported, run, cmap, karyo1, karyo1HasChr, karyo2,
                   karyo2Readable, busco1, busco2, rep1, rep2, chr_color_map,
                   color_replace, dual_karyotype, merged_busco, prev, uvars>>

\* if args.plot: write_and_run_rscript(...), which fails when Rscript exits
\* non-zero or leaves no chromosome.png.
RenderStage ==
    /\ pc = "render"
    /\ \E plot \in BOOLEAN, rendered \in BOOLEAN :
          IF plot THEN Finish("render", ~rendered, "succeed")
          ELSE /\ pc' = "succeed"
               /\ UNCHANGED <<executed, errorReported, exitCode>>
    /\ UNCHANGED <<successReported, run, cmap, karyo1, karyo1HasChr, karyo2,
                   karyo2Readable, busco1, busco2, rep1, rep2, chr_color_map,
                   color_replace, dual_karyotype, merged_busco, final_synteny,
                   prev, uvars>>

\* succeed(...) and the normal end of main()
SucceedStage ==
    /\ pc = "succeed"
    /\ successReported' = TRUE
    /\ pc' = "done"
    /\ exitCode' = 0
    /\ UNCHANGED <<executed, errorReported, run, cmap, karyo1, karyo1HasChr,
                   karyo2, karyo2Readable, busco1, busco2, rep1, rep2,
                   chr_color_map, color_replace, dual_karyotype, merged_busco,
                   final_synteny, prev, uvars>>

\* The tool is invoked again with the same paths, after a successful run.
Rerun ==
    /\ pc = "done" /\ run < MaxRuns
    /\ \E c \in Cmaps : cmap' = c
    /\ run' = run + 1
    /\ prev' = [cmap |-> cmap, out |-> Outputs]
    /\ pc' = "color_map" /\ executed' = <<>>
    /\ errorReported' = FALSE /\ successReported' = FALSE /\ exitCode' = -1
    /\ UNCHANGED <<karyo1, karyo1HasChr, karyo2, karyo2Readable, busco1, busco2,
                   rep1, rep2, chr_color_map, color_replace, dual_karyotype,
                   merged_busco, final_synteny, uvars>>

Next ==
    \/ ColorMapStage \/ Augment1Stage \/ Augment2Stage \/ StackStage
    \/ MergeStage \/ RemapStage \/ FilterStage \/ FillStage \/ RenderStage
    \/ SucceedStage \/ Rerun

Spec == Init /\ [][Next]_vars

\* ------------------------------------------- the functions on their own
\* Longest list of chromosome labels given to create_chr_color_map alone.
MaxLabels == 3

\* Labels given to create_chr_color_map alone: decimal, Roman (either case)
\* and plain ones.
UnitLabels == {"1", "2", "I", "ii", "W", "Z"}

\* Rows of the ortholog tables given to merge_busco alone.
UnitRows1 ==
    {RowA1, RowA1Padded, RowA1Fragmented, RowA1BadCoord, RowB2, RowB2NoContig,
     RowB2NoCoords, RowB2IdOnly}
UnitRows2 == {RowA1, RowA1Padded, RowA1Fragmented, RowB2, RowB2IdOnly}

\* Karyotypes and color maps given to augment_karyotype alone: the map is a
\* chr_color_map.txt written for some karyotype, not always the one augmented.
AugmentLabels == {"1", "2", "I"}
AugmentMaps ==
    {create_chr_color_map(l, TRUE, "plasma").labelMap :
        l \in SeqsOf(AugmentLabels, 1, MaxChr)}

UInit ==
    /\ pc = "unit" /\ executed = <<>>
    /\ errorReported = FALSE /\ successReported = FALSE /\ exitCode = -1
    /\ run = 1 /\ cmap = ""
    /\ karyo1 = <<>> /\ karyo1HasChr = TRUE /\ karyo2 = <<>> /\ karyo2Readable = TRUE
    /\ busco1 = <<>> /\ busco2 = <<>> /\ rep1 = <<>> /\ rep2 = <<>>
    /\ chr_color_map = <<>> /\ color_replace = <<>> /\ dual_karyotype = <<>>
    /\ merged_busco = <<>> /\ final_synteny = <<>>
    /\ prev = [cmap |-> "", out |-> NoOutputs]
    /\ unit = "idle" /\ uLabelsA = <<>> /\ uLabelsB = <<>> /\ uCmap = ""
    /\ uMapsA = <<>> /\ uMapsB = <<>> /\ uRows = <<>> /\ uMap = <<>> /\ uOut = <<>>

\* create_chr_color_map on one karyotype.
CallColorMapA ==
    /\ unit = "idle"
    /\ \E labels \in SeqsOf(UnitLabels, 1, MaxLabels), c \in ValidCmaps :
          /\ uLabelsA' = labels /\ uCmap' = c
          /\ uMapsA' = create_chr_color_map(labels, TRUE, c)
    /\ unit' = "colorA"
    /\ UNCHANGED <<pvars, uLabelsB, uMapsB, uRows, uMap, uOut>>

\* create_chr_color_map again, on a karyotype holding the same label set in
\* any row order.
CallColorMapB ==
    /\ unit = "colorA"
    /\ \E labels \in SeqsOf(UnitLabels, 1, MaxLabels) :
          /\ Range(labels) = Range(uLabelsA)
          /\ uLabelsB' = labels
          /\ uMapsB' = create_chr_color_map(labels, TRUE, uCmap)
    /\ unit' = "colorB"
    /\ UNCHANGED <<pvars, uLabelsA, uCmap, uMapsA, uRows, uMap, uOut>>

\* merge_busco on two ortholog tables, into a new file.
CallMergeBusco ==
    /\ unit = "idle"
    /\ \E b1 \in SeqsOf(UnitRows1, 0, MaxRows), b2 \in SeqsOf(UnitRows2, 0, MaxRows) :
          /\ uRows' = <<b1, b2>>
          /\ uOut' = merge_busco(b1, b2, <<>>)
    /\ unit' = "merge"
    /\ UNCHANGED <<pvars, uLabelsA, uLabelsB, uCmap, uMapsA, uMapsB, uMap>>

\* augment_karyotype on a karyotype (its first row already filled, or not)
\* and a color map, in join mode or with a flat fill.
CallAugment ==
    /\ unit = "idle"
    /\ \E labels \in SeqsOf(AugmentLabels, 1, MaxChr), m \in AugmentMaps,
          fill_all \in {None, FlatFill}, filled \in BOOLEAN :
          LET rows == [KaryotypeFile(labels, "sp1") EXCEPT
                          ![1].fill = IF filled THEN "aa0000" ELSE NaN]
          IN  /\ uRows' = rows /\ uMap' = <<m, fill_all>>
              /\ uOut' = augment_karyotype(rows, TRUE, m, fill_all,
                                           KaryoSize, KaryoColor)
    /\ unit' = "augment"
    /\ UNCHANGED <<pvars, uLabelsA, uLabelsB, uCmap, uMapsA, uMapsB>>

UNext == CallColorMapA \/ CallColorMapB \/ CallMergeBusco \/ CallAugment

SpecUnit == UInit /\ [][UNext]_vars

\* ------------------------------------------------------------ the claims
DataRows(lines) == SubSeq(lines, 2, Len(lines))
Ran(stage) == stage \in Range(executed)

\* The order of the stages in main().
StageOrder ==
    <<"color_map", "augment1", "augment2", "stack", "merge", "remap", "filter",
      "fill", "render">>
IsPrefix(s, t) == Len(s) <= Len(t) /\ s = SubSeq(t, 1, Len(s))

\* ---- C2
\* C2: once replace_fill has run, the header of final_synteny is that of its
\* input; its data rows are, in order, exactly the input rows whose first
\* field is a key of the ordinal color map; each keeps its first six fields,
\* has seven fields, and carries the color the map gives its first field,
\* never "placeholder".
C2_ReplaceFillFrame ==
    Ran("fill") =>
        LET kept == SelectSeq(DataRows(merged_busco),
                        LAMBDA r : \E i \in DOMAIN color_replace :
                                       color_replace[i][1] = r[1])
            out == DataRows(final_synteny)
        IN  /\ final_synteny[1] = merged_busco[1]
            /\ Len(out) = Len(kept)
            /\ \A i \in DOMAIN out :
                  /\ Len(out[i]) = 7
                  /\ \A k \in 1..6 : out[i][k] = kept[i][k]
                  /\ out[i][7] # "placeholder"
                  /\ <<out[i][1], out[i][7]>> \in Range(color_replace)

\* replace_fill has run on a table of which it kept a row and dropped a row.
C2_Witness ==
    /\ Ran("fill")
    /\ Len(final_synteny) > 1
    /\ Len(final_synteny) < Len(merged_busco)

\* ---- C5
\* C5: every data row of final_synteny whose first field is a chromosome
\* label of karyotype 1 carries the color chr_color_map gives that label.
C5_LinkColoredBySpecies1Chr ==
    Ran("fill") =>
        \A i \in DOMAIN DataRows(final_synteny) :
            LET row == DataRows(final_synteny)[i]
            IN  row[1] \in Range(ChrColumn(karyo1))
                    => <<row[1], row[7]>> \in Range(chr_color_map)

\* ---- C6
\* C6: a run that ends successfully after an earlier successful run with the
\* same gradient name leaves every output file as the earlier run left it.
C6_RerunIdentical ==
    (pc = "done" /\ run > 1 /\ cmap = prev.cmap) => Outputs = prev.out

\* A second run with the first run's gradient has ended successfully, with
\* links in the final table.
C6_Witness ==
    /\ pc = "done" /\ run = 2 /\ cmap = prev.cmap
    /\ Len(final_synteny) > 1

\* ---- C7
\* The state part of C7: the stages run so far are a prefix of main()'s
\* order and the stage about to run is the next one; a reported error means
\* the process has ended with exit code 1 without the success message; the
\* success message means every stage up to fill resolution ran and no error
\* was reported.
C7_State ==
    /\ IsPrefix(executed, StageOrder)
    /\ pc \in {"color_map", "augment1", "augment2", "stack", "merge", "remap",
               "filter", "fill"} => pc = StageOrder[Len(executed) + 1]
    /\ errorReported <=> pc = "failed"
    /\ errorReported => exitCode = 1 /\ ~successReported
    /\ exitCode = 1 => errorReported
    /\ successReported => pc = "done" /\ exitCode = 0 /\ Len(executed) >= 8

\* The step part of C7: after a fatal error nothing changes any more (no
\* later stage, no retry, no cleanup), and the failing stage leaves every
\* output file as it was.
C7_Step ==
    /\ pc = "failed" => UNCHANGED vars
    /\ pc' = "failed" => Outputs' = Outputs

\* C7: the pipeline is fail-fast: stages run strictly in main()'s order; once
\* a stage reports a fatal error no later stage runs, the success message is
\* never reported, the files already written stay as they are, nothing is
\* retried and the exit code is 1.
C7_FailFast == []C7_State /\ [][C7_Step]_vars

\* The run has failed in the remap stage, after the merge stage wrote links.
C7_Witness ==
    /\ pc = "failed" /\ Last(executed) = "remap"
    /\ Len(merged_busco) > 1 /\ chr_color_map # <<>>

\* ---- C8
\* C8: a row-level anomaly never aborts the run.  Every ortholog table of the
\* model has all its columns and differs from a clean one only in single
\* rows (truncated, bad coordinate, empty contig), so the merge stage never
\* ends the run, and neither do the numeric filter and the fill resolution.
C8_RowAnomalyNeverAborts ==
    pc = "failed" => Last(executed) \notin {"merge", "filter", "fill"}

\* ---- C10
\* C10: after a successful run the fill of every row of karyotype 1 is the
\* color the chr_color_map.txt of that run gives the row's Chr.
C10_FillFromLatestMap ==
    pc = "done" =>
        \A i \in DOMAIN karyo1 :
            <<karyo1[i].Chr, karyo1[i].fill>> \in Range(chr_color_map)

\* ---- C1
NormId(row) == Lower(Strip(row.id))
IdsOf(table) == {NormId(table[i]) : i \in DOMAIN table}
RowsOf(table, bid) == {table[i] : i \in {j \in DOMAIN table : NormId(table[j]) = bid}}
\* The row's status is "Complete" (read as the code reads it, trimmed).
HasCompleteStatus(row) == row.Status # None /\ Strip(row.Status) = "Complete"
\* The row has a contig value and start/end coordinates that parse.
HasLocus(row) ==
    /\ Truthy(row.Contig) \/ Truthy(row.Sequence)
    /\ ~ParseCoord(row.GeneStart).err /\ ~ParseCoord(row.GeneEnd).err
\* The identifier occurs in the table and its rows there are all complete
\* and located.
GoodIn(table, bid) ==
    /\ RowsOf(table, bid) # {}
    /\ \A r \in RowsOf(table, bid) : HasCompleteStatus(r) /\ HasLocus(r)
\* The identifier does not occur in the table, or only with another status.
NoCompleteIn(table, bid) == \A r \in RowsOf(table, bid) : ~HasCompleteStatus(r)
GoodShared(t1, t2) ==
    {bid \in IdsOf(t1) \cup IdsOf(t2) : GoodIn(t1, bid) /\ GoodIn(t2, bid)}
\* The identifiers merge_busco wrote a row for.
WrittenIds(t1, t2) ==
    LET loop == MergeLoop(read_busco(t1).data, read_busco(t2).data)
    IN  {loop[i].bid : i \in {j \in DOMAIN loop : loop[j].lines # <<>>}}

\* C1: when every identifier of the two tables is either good in both (k of
\* them) or absent from, or without a "Complete" row in, one of them,
\* merge_busco writes exactly k data rows after the header; and an identifier
\* that is absent from a table, or has no "Complete" row in it, never gets a
\* row.
C1_MergeWritesSharedComplete ==
    unit = "merge" =>
        LET t1 == uRows[1]
            t2 == uRows[2]
        IN  /\ (\A bid \in IdsOf(t1) \cup IdsOf(t2) :
                    \/ bid \in GoodShared(t1, t2)
                    \/ NoCompleteIn(t1, bid) \/ NoCompleteIn(t2, bid))
                => Len(DataRows(uOut.lines)) = Cardinality(GoodShared(t1, t2))
            /\ ~uOut.err =>
                  \A bid \in WrittenIds(t1, t2) :
                      ~NoCompleteIn(t1, bid) /\ ~NoCompleteIn(t2, bid)

\* ---- C3
\* C3: two calls of create_chr_color_map with one gradient, on karyotypes
\* holding the same N distinct labels in any row order, that both return,
\* each write N entries to the label map and N to the ordinal map, the same
\* label-to-color pairs and the same ordinal map.
C3_ColorMapOrderIndependent ==
    (unit = "colorB" /\ ~uMapsA.err /\ ~uMapsB.err) =>
        LET n == Cardinality(Range(uLabelsA))
        IN  /\ Len(uMapsA.labelMap) = n /\ Len(uMapsA.ordinalMap) = n
            /\ Len(uMapsB.labelMap) = n /\ Len(uMapsB.ordinalMap) = n
            /\ Range(uMapsA.labelMap) = Range(uMapsB.labelMap)
            /\ uMapsA.ordinalMap = uMapsB.ordinalMap

\* ---- C4
\* The label parses as a number or a Roman numeral.
Parsed(label) == try_parse_chr(label).type = "int"
Magnitude(label) == try_parse_chr(label).val
\* C4: for a chromosome set that mixes numeric, Roman-numeral and plain
\* labels, create_chr_color_map returns without a fatal error and ranks the
\* parsed labels by magnitude, then the plain ones by their string value.
C4_MixedLabelsRanked ==
    (unit = "colorA"
        /\ \E a, b, c \in Range(uLabelsA) :
              /\ a \in DOMAIN IntLiteral
              /\ Upper(b) \in DOMAIN ROMAN_NUMERAL_MAP
              /\ ~Parsed(c)) =>
        /\ ~uMapsA.err
        /\ Len(uMapsA.labelMap) = Cardinality(Range(uLabelsA))
        /\ \A i, j \in DOMAIN uMapsA.labelMap :
              LET a == uMapsA.labelMap[i][1]
                  b == uMapsA.labelMap[j][1]
              IN  i < j =>
                    \/ Parsed(a) /\ ~Parsed(b)
                    \/ Parsed(a) /\ Parsed(b) /\ Magnitude(a) <= Magnitude(b)
                    \/ ~Parsed(a) /\ ~Parsed(b) /\ StrOrd[a] < StrOrd[b]

\* ---- C9
\* C9: every row augment_karyotype writes has a non-null fill.
C9_AugmentedFillNonNull ==
    unit = "augment" =>
        \A i \in DOMAIN uOut.rows : uOut.rows[i].fill # NaN
====
